---------------------------- MODULE Spec2Model ----------------------------
(***************************************************************************)
(* A model of gen-changelog.py: get_rel_tags, find_start_tag,              *)
(* output_commits and process_commit.                                      *)
(*                                                                         *)
(* A Python string is a sequence of one-character strings, so that split,  *)
(* strip, startswith, indexing and the two regular expressions are         *)
(* computed character by character.  A line read from a subprocess is held *)
(* without its terminating newline: every use the program makes of a line  *)
(* (startswith, strip, the regular expressions, the slice [16:] followed   *)
(* by strip) gives the same result with and without it.  Python indices    *)
(* are 0-based and the sequences here 1-based: Python's x[k] is x[k+1].    *)
(***************************************************************************)
EXTENDS Integers, Sequences, FiniteSets, TLC

VARIABLES
    pc,            \* where the program is
    tags,          \* the tags of the repository, sorted by name
    objfmt,        \* the object format of the repository: "sha1" or "sha256"
    pos,           \* number of lines the running loop has consumed
    release_refs,  \* the global dict release_refs
    start_tag,     \* the value find_start_tag returned
    argv,          \* sys.argv[1:]
    cmd,           \* the command line handed to Popen in output_commits
    commits,       \* the commits git log reports, newest first
    buf,           \* output_commits: buf
    files,         \* output_commits: files
    filemode,      \* output_commits: filemode
    out,           \* the lines printed on standard output so far
    calls,         \* the (lines, files) pairs handed to process_commit so far
    out2           \* the lines printed when a printed header is formatted again

vars == <<pc, tags, objfmt, pos, release_refs, start_tag, argv, cmd, commits,
          buf, files, filemode, out, calls, out2>>

None == "None"

-----------------------------------------------------------------------------
(* Bounds of the model *)

MaxBody == 2

MaxFiles == 2

MaxCommits == 2

MaxTags == 3

-----------------------------------------------------------------------------
(* Python str operations *)

IsSpace(c) == c \in {" ", "\t"}

RECURSIVE lstrip(_)
lstrip(s) == IF s # <<>> /\ IsSpace(Head(s)) THEN lstrip(Tail(s)) ELSE s

RECURSIVE rstrip(_)
rstrip(s) ==
    IF s # <<>> /\ IsSpace(s[Len(s)]) THEN rstrip(SubSeq(s, 1, Len(s) - 1)) ELSE s

strip(s) == rstrip(lstrip(s))

startswith(s, p) == Len(s) >= Len(p) /\ SubSeq(s, 1, Len(p)) = p

Min(S) == CHOOSE m \in S : \A n \in S : m <= n

\* s.split(c) for a one-character separator c: every occurrence separates,
\* so two adjacent separators enclose an empty field.
RECURSIVE split(_, _)
split(s, c) ==
    LET at == {i \in 1..Len(s) : s[i] = c}
    IN  IF at = {} THEN <<s>>
        ELSE <<SubSeq(s, 1, Min(at) - 1)>> \o split(SubSeq(s, Min(at) + 1, Len(s)), c)

\* sep.join(fs)
RECURSIVE join(_, _)
join(fs, sep) ==
    IF fs = <<>> THEN <<>>
    ELSE IF Len(fs) = 1 THEN fs[1]
    ELSE fs[1] \o sep \o join(Tail(fs), sep)

\* del s[k+1] (Python: del s[k])
RemoveAt(s, i) == SubSeq(s, 1, i - 1) \o SubSeq(s, i + 1, Len(s))

\* [f(x) for x in s] with f = strip
StripAll(s) == [i \in 1..Len(s) |-> strip(s[i])]

-----------------------------------------------------------------------------
(* Literals of the program *)

StartSentinel == <<"-","-","S","T","A","R","T","-","C","O","M","M","I","T","-","-">>
EndSentinel == <<"-","-","E","N","D","-","C","O","M","M","I","T","-","-">>
GitSvnId == <<"g","i","t","-","s","v","n","-","i","d">>
BulletMarker == <<"*"," ">>
Star == <<"*">>
SignedOffBy == <<"S","i","g","n","e","d","-","o","f","f","-","b","y",":">>
GnomeAddress == <<"<","t","p","m","@","s","r","c",".","g","n","o","m","e",".","o","r","g",">">>
CentricularAddress == <<"<","t","i","m","@","c","e","n","t","r","i","c","u","l","a","r",".","n","e","t",">">>
Tab == <<"\t">>
Blank == <<>>

-----------------------------------------------------------------------------
(* process_commit *)

\* The result of a call that raised IndexError: nothing has been printed,
\* since every indexing of process_commit precedes its first print.
Fault == [fault |-> TRUE, out |-> <<>>]

\* A variant that takes only a field starting with '-' for a UTC offset.
is_offset_field_minus_only(f) == startswith(f, <<"-">>)

\* fields[2].startswith('+') or fields[2].startswith('-')
is_offset_field(f) == startswith(f, <<"+">>) \/ startswith(f, <<"-">>)

\* The filter of the line buffer.
KeepLine(x) == strip(x) # <<>> /\ ~startswith(x, GitSvnId)

filter_lines(lines) == StripAll(SelectSeq(lines, KeepLine))

KeepFile(x) == strip(x) # <<>>

filter_files(fs) == StripAll(SelectSeq(fs, KeepFile))

\* A variant that tests for '*' as the two other tests of process_commit do.
fileincommit_star(lines) == \E i \in 1..Len(lines) : startswith(lines[i], Star)

\* The loop that sets fileincommit, on the filtered lines.
fileincommit(lines) == \E i \in 1..Len(lines) : startswith(lines[i], BulletMarker)

\* The loop that sets first_cl_body_line_index (0-based, 0 when no line
\* after the first starts with '*').
first_cl_body_line_index(lines) ==
    LET starred == {i \in 1..(Len(lines) - 1) : startswith(lines[i + 1], Star)}
    IN  IF starred = {} THEN 0 ELSE Min(starred)

\* "Clean up top line of ChangeLog entry": the printed header line, or a
\* fault when an index is out of range.
clean_top_line(top_line) ==
    LET fields == split(top_line, " ")
    IN  IF Len(fields) < 3 THEN Fault                        \* fields[2]
        ELSE
        LET f1 == IF is_offset_field(fields[3]) THEN RemoveAt(fields, 3) ELSE fields
        IN  IF Len(f1[2]) < 3 THEN Fault                     \* fields[1][2]
            ELSE IF f1[2][3] = ":" /\ Len(f1[2]) < 6 THEN Fault   \* fields[1][5]
            ELSE
            LET f2 == IF f1[2][3] = ":" /\ f1[2][6] = ":" THEN RemoveAt(f1, 2) ELSE f1
                f3 == IF f2[Len(f2)] = GnomeAddress
                      THEN [f2 EXCEPT ![Len(f2)] = CentricularAddress]
                      ELSE f2
            IN  [fault |-> FALSE, out |-> <<strip(join(f3, <<" ">>))>>]

process_commit(rawlines, rawfiles) ==
    LET lines == filter_lines(rawlines)
        fs == filter_files(rawfiles)
    IN  IF Len(lines) < 2 THEN Fault                         \* lines[0], lines[1]
        ELSE
        LET subject_line_index == IF startswith(lines[2], Star) THEN 0 ELSE 1
            first == first_cl_body_line_index(lines)
            top == clean_top_line(lines[1])
            subject == IF subject_line_index > 0
                       THEN <<Tab \o strip(lines[subject_line_index + 1])>>
                       ELSE <<>>
            bullets == IF ~fileincommit(lines)
                       THEN [i \in 1..Len(fs) |-> Tab \o BulletMarker \o strip(fs[i]) \o <<":">>]
                            \o <<Blank>>
                       ELSE <<>>
            NotSignedOff(l) == ~startswith(l, SignedOffBy)
            rest == SelectSeq(SubSeq(lines, first + 1, Len(lines)), NotSignedOff)
            body == IF first > 0
                    THEN [i \in 1..Len(rest) |-> Tab \o strip(rest[i])] \o <<Blank>>
                    ELSE <<>>
        IN  IF top.fault THEN Fault
            ELSE [fault |-> FALSE, out |-> top.out \o <<Blank>> \o subject \o bullets \o body]

-----------------------------------------------------------------------------
(* What git prints *)

\* An object name: 40 characters in a sha1 repository, 64 in a sha256 one.
\* The model writes an object as one letter repeated.
ObjectName(letter, fmt) == [i \in 1..(IF fmt = "sha1" THEN 40 ELSE 64) |-> letter]

\* The header line the template's "%ai  %an <%ae>" produces for a commit.
HeaderLine(c) ==
    c.date \o <<" ">> \o c.time \o <<" ">> \o c.off \o <<" ", " ">> \o c.an
        \o <<" ", "<">> \o c.ae \o <<">">>

\* The lines git log prints for one commit under the template
\* --START-COMMIT--%H%n%ai  %an <%ae>%n%n%s%n%b%n--END-COMMIT-- with
\* --name-only: the file names follow the end sentinel.
CommitLines(c, fmt) ==
    <<StartSentinel \o ObjectName(c.hash, fmt), HeaderLine(c), Blank, c.subject>>
        \o c.body \o <<Blank, EndSentinel>> \o c.files

\* The whole output of git log: the commits' lines, a blank line between two
\* commits.
RECURSIVE GitLog(_, _)
GitLog(cs, fmt) ==
    IF cs = <<>> THEN <<>>
    ELSE IF Len(cs) = 1 THEN CommitLines(cs[1], fmt)
    ELSE CommitLines(cs[1], fmt) \o <<Blank>> \o GitLog(Tail(cs), fmt)

-----------------------------------------------------------------------------
(* The commits the model draws from *)

Date == <<"2","0","0","8","-","0","5","-","1","3">>
Time == <<"0","7",":","1","0",":","2","8">>
Utc == <<"+","0","0","0","0">>
West == <<"-","0","7","0","0">>
Alice == <<"A","l","i","c","e">>
Tim == <<"T","i","m">>
AlBo == <<"A","l"," ","B","o">>
Email == <<"a","@","b",".","c">>
GnomeEmail == <<"t","p","m","@","s","r","c",".","g","n","o","m","e",".","o","r","g">>
Fix == <<"F","i","x">>
BulletLine == <<"*"," ","a",".","c",":"," ","x">>
StarLine == <<"*","b","*">>
SignedOffLine == <<"S","i","g","n","e","d","-","o","f","f","-","b","y",":"," ","A">>
TextLine == <<"t","e","x","t">>
SvnLine == <<"g","i","t","-","s","v","n","-","i","d",":"," ","1">>
FileA == <<"a",".","c">>
FileB == <<"b",".","c">>

\* All sequences over S of length at most n.
SeqsUpTo(S, n) == UNION {[1..k -> S] : k \in 0..n}

Authors ==
    { [off |-> Utc, an |-> Alice, ae |-> Email],
      [off |-> Utc, an |-> Tim, ae |-> GnomeEmail],
      [off |-> West, an |-> AlBo, ae |-> Email] }

\* A commit message: a subject and the lines of the body.  A message with
\* an empty subject is the empty message.
Messages(subjects, bodylines, n) ==
    {[subject |-> s, body |-> b] : s \in subjects, b \in SeqsUpTo(bodylines, n)}
        \cup {[subject |-> Blank, body |-> <<>>]}

Commit(h, a, m, fs) ==
    [hash |-> h, date |-> Date, time |-> Time, off |-> a.off, an |-> a.an,
     ae |-> a.ae, subject |-> m.subject, body |-> m.body, files |-> fs]

\* The commits process_commit is examined on.
FmtCommits ==
    { Commit("a", a, m, fs) :
        a \in Authors,
        m \in Messages({Fix, BulletLine, StarLine},
                       {Blank, BulletLine, StarLine, SignedOffLine, TextLine, SvnLine},
                       MaxBody),
        fs \in SeqsUpTo({FileA, FileB}, MaxFiles) }

-----------------------------------------------------------------------------
(* process_commit on one block *)

InitFmt ==
    /\ pc = "process_commit"
    /\ tags = <<>>
    /\ objfmt = "sha1"
    /\ pos = 0
    /\ release_refs = <<>>
    /\ start_tag = None
    /\ argv = <<>>
    /\ cmd = <<>>
    /\ commits \in {<<c>> : c \in FmtCommits}
    \* the buffers output_commits holds for the commit when the next start
    \* sentinel is read: the lines between the sentinels, and the file lines
    \* with the blank line that separates two commits
    /\ buf = <<HeaderLine(commits[1]), Blank, commits[1].subject>>
                \o commits[1].body \o <<Blank>>
    /\ files = commits[1].files \o <<Blank>>
    /\ filemode = TRUE
    /\ out = <<>>
    /\ calls = <<>>
    /\ out2 = <<>>

\* process_commit(buf, files)
ProcessCommit ==
    /\ pc = "process_commit"
    /\ LET r == process_commit(buf, files)
       IN  /\ out' = r.out
           /\ pc' = IF r.fault THEN "IndexError" ELSE "printed"
    /\ calls' = Append(calls, [lines |-> buf, files |-> files])
    /\ UNCHANGED <<tags, objfmt, pos, release_refs, start_tag, argv, cmd, commits,
                   buf, files, filemode, out2>>

\* The printed stanza is formatted again: process_commit on the block whose
\* header line is the header line just printed.
Reformat ==
    /\ pc = "printed"
    /\ LET r == process_commit(<<out[1]>> \o Tail(buf), files)
       IN  /\ out2' = r.out
           /\ pc' = IF r.fault THEN "IndexError2" ELSE "printed2"
    /\ UNCHANGED <<tags, objfmt, pos, release_refs, start_tag, argv, cmd, commits,
                   buf, files, filemode, out, calls>>

NextFmt == ProcessCommit \/ Reformat

SpecFmt == InitFmt /\ [][NextFmt]_vars

-----------------------------------------------------------------------------
(* Properties of process_commit, under SpecFmt *)

\* The block handed to process_commit, as the properties read it.
IsNonBlank(x) == \E i \in 1..Len(x) : ~IsSpace(x[i])

IsShown(x) == IsNonBlank(x) /\ ~startswith(x, GitSvnId)

\* The non-blank lines of the block that are not git-svn-id lines.
ShownLines == StripAll(SelectSeq(buf, IsShown))

\* The non-blank entries of the file buffer.
ShownFiles == StripAll(SelectSeq(files, IsNonBlank))

OneWord(n) == n # <<>> /\ \A i \in 1..Len(n) : n[i] # " "

\* The block's header is "YYYY-MM-DD HH:MM:SS +0000  Name <email>" with a
\* one-word name.
HeaderOfC1Form ==
    /\ OneWord(commits[1].an)
    /\ buf[1] = commits[1].date \o <<" ">> \o commits[1].time \o <<" ">> \o Utc
                   \o <<" ", " ">> \o commits[1].an \o <<" ", "<">> \o commits[1].ae \o <<">">>

\* "YYYY-MM-DD  Name <address>"
ShortHeader(c, address) == c.date \o <<" ", " ">> \o c.an \o <<" ">> \o address

\* C1 as stated: for every header line of the form
\* "YYYY-MM-DD HH:MM:SS +0000  Name <email>" the printed header line is
\* "YYYY-MM-DD  Name <email>".
C1_AsStated ==
    (pc = "printed" /\ HeaderOfC1Form)
        => out[1] = ShortHeader(commits[1], <<"<">> \o commits[1].ae \o <<">">>)

\* C1 amended: for every header line of that form the printed header line is
\* "YYYY-MM-DD  Name <email>" when the e-mail is not <tpm@src.gnome.org>, and
\* "YYYY-MM-DD  Name <tim@centricular.net>" when it is.
C1_HeaderNormalized ==
    (pc = "printed" /\ HeaderOfC1Form)
        => out[1] = ShortHeader(commits[1],
                                IF commits[1].ae = GnomeEmail
                                THEN CentricularAddress
                                ELSE <<"<">> \o commits[1].ae \o <<">">>)

\* A header of the form of C1 by Alice has been printed in its short form.
C1_Witness ==
    /\ pc = "printed"
    /\ HeaderOfC1Form
    /\ commits[1].an = Alice
    /\ out[1] = Date \o <<" ", " ">> \o Alice \o <<" ", "<">> \o Email \o <<">">>

\* C2 as stated: a printed header line, formatted again, is formatted to
\* completion and comes out unchanged.
C2_Idempotent ==
    /\ pc # "IndexError2"
    /\ pc = "printed2" => out2[1] = out[1]

\* The first line after the header, among the shown lines, exists and does
\* not start with "* ".
FirstBodyLineIsNoBullet ==
    /\ Len(ShownLines) >= 2
    /\ ~startswith(ShownLines[2], BulletMarker)

NoBulletLine == \A i \in 1..Len(ShownLines) : ~startswith(ShownLines[i], BulletMarker)

\* The file-bullet section: one "\t* <path>:" line per non-blank entry of the
\* file buffer, in its order, then the blank line that closes the section.
FileSection ==
    [i \in 1..Len(ShownFiles) |-> <<"\t", "*", " ">> \o ShownFiles[i] \o <<":">>] \o <<Blank>>

\* The stanza holds the file-bullet section right after the header line, the
\* blank line and the subject line (which is printed when the first body line
\* does not start with '*').
FileSectionPrinted ==
    LET k == IF startswith(ShownLines[2], Star) THEN 2 ELSE 3
    IN  /\ Len(out) >= k + Len(FileSection)
        /\ SubSeq(out, k + 1, k + Len(FileSection)) = FileSection

\* C3 as stated: when the first body line does not start with "* ", the
\* file-bullet section is printed, whatever the remaining lines are.
C3_AsStated ==
    (pc \in {"printed", "IndexError"} /\ FirstBodyLineIsNoBullet)
        => (pc = "printed" /\ FileSectionPrinted)

\* C3 amended: when there is a first body line and no line of the block
\* starts with "* ", the file-bullet section is printed, one line per non-blank
\* entry of the file buffer, in the file buffer's order.
C3_FileBullets ==
    (pc \in {"printed", "IndexError"} /\ FirstBodyLineIsNoBullet /\ NoBulletLine)
        => (pc = "printed" /\ FileSectionPrinted)

\* A block without any "* " line and with the files b.c, a.c has been
\* printed with its two file bullets in that order.
C3_Witness ==
    /\ pc = "printed"
    /\ FirstBodyLineIsNoBullet
    /\ NoBulletLine
    /\ ShownFiles = <<FileB, FileA>>
    /\ SubSeq(out, 4, 6) = <<<<"\t", "*", " ">> \o FileB \o <<":">>,
                             <<"\t", "*", " ">> \o FileA \o <<":">>, Blank>>

\* The body section as C9 describes it: from the first line after the first
\* that begins with "* " to the end, without the Signed-off-by: lines, each
\* with a leading tab, then a blank line; nothing when no line begins with
\* "* ".
IsNotSignedOff(l) == ~startswith(l, SignedOffBy)

C9_BodySection ==
    LET marked == {i \in 2..Len(ShownLines) : startswith(ShownLines[i], BulletMarker)}
        kept == SelectSeq(SubSeq(ShownLines, Min(marked), Len(ShownLines)), IsNotSignedOff)
    IN  IF marked = {} THEN <<>>
        ELSE [i \in 1..Len(kept) |-> <<"\t">> \o kept[i]] \o <<Blank>>

\* C9 as stated: the stanza is the header line, a blank line, the subject
\* line if any, and then either the file-bullet section (no line begins with
\* "* ") or the body section (some line after the first begins with "* "),
\* never both.
C9_AsStated ==
    pc = "printed" =>
        LET subject == IF startswith(ShownLines[2], Star) THEN <<>>
                       ELSE <<<<"\t">> \o ShownLines[2]>>
        IN  out = SubSeq(out, 1, 2) \o subject
                    \o (IF C9_BodySection = <<>> THEN FileSection ELSE <<>>)
                    \o C9_BodySection

\* C9 holds of the blocks in which every line that starts with '*' starts
\* with "* ": the two tests of process_commit then agree.
C9_WhenStarsAreBullets ==
    (pc = "printed"
        /\ \A i \in 1..Len(ShownLines) :
              startswith(ShownLines[i], Star) => startswith(ShownLines[i], BulletMarker))
        => C9_AsStated

-----------------------------------------------------------------------------
(* The tags of the repository and what git show-ref prints *)

RefsTags == <<" ","r","e","f","s","/","t","a","g","s","/">>
Peeled == <<"^","{","}">>

\* git show-ref --tags [--dereference]: one line "<object> refs/tags/<name>"
\* per tag, in the order of the names; with --dereference an annotated tag
\* has a second line "<commit> refs/tags/<name>^{}".
RECURSIVE ShowRef(_, _, _)
ShowRef(ts, fmt, dereference) ==
    IF ts = <<>> THEN <<>>
    ELSE LET t == Head(ts)
         IN  <<ObjectName(t.obj, fmt) \o RefsTags \o t.name>>
                \o (IF dereference /\ t.peeled # None
                    THEN <<ObjectName(t.peeled, fmt) \o RefsTags \o t.name \o Peeled>>
                    ELSE <<>>)
                \o ShowRef(Tail(ts), fmt, dereference)

\* The tags the model draws from, sorted by name.
TagCandidates ==
    << [name |-> <<"C","H","A","N","G","E","L","O","G","_","S","T","A","R","T">>,
        obj |-> "a", peeled |-> None],
       [name |-> <<"C","H","A","N","G","E","L","O","G","_","S","T","A","R","T","_","O","L","D">>,
        obj |-> "b", peeled |-> None],
       [name |-> <<"G","N","E","T","-","1",".","2">>, obj |-> "b", peeled |-> None],
       [name |-> <<"G","N","E","T","-","1",".","2",".","3">>, obj |-> "c", peeled |-> "a"],
       [name |-> <<"G","N","E","T","-","1",".","2",".","3","-","r","c","1">>,
        obj |-> "b", peeled |-> None],
       [name |-> <<"G","N","E","T","-","2","_","0","-","0","1">>, obj |-> "a", peeled |-> None],
       [name |-> <<"v","1",".","0">>, obj |-> "a", peeled |-> None] >>

\* The candidates at the indices in S, in order.
RECURSIVE Pick(_, _)
Pick(cands, S) ==
    IF S = {} THEN <<>>
    ELSE <<cands[Min(S)]>> \o Pick(cands, S \ {Min(S)})

TagSets(idx, n) == {Pick(TagCandidates, S) : S \in {T \in SUBSET idx : Cardinality(T) <= n}}

-----------------------------------------------------------------------------
(* get_rel_tags and find_start_tag *)

ShaLen == 40

Lower ==
    {"a","b","c","d","e","f","g","h","i","j","k","l","m","n","o","p","q","r","s","t",
     "u","v","w","x","y","z"}

Digits == {"0","1","2","3","4","5","6","7","8","9"}

GnetPrefix == <<" ","r","e","f","s","/","t","a","g","s","/","G","N","E","T","-">>
ChangelogStart ==
    <<" ","r","e","f","s","/","t","a","g","s","/","C","H","A","N","G","E","L","O","G","_","S","T","A","R","T">>

NoMatch == [match |-> FALSE, groups |-> <<>>]

After(s, n) == SubSeq(s, n + 1, Len(s))

\* [0-9]+ at the start of s is greedy: the length of the longest run of digits.
\* No shorter run can match, because what follows the group in both patterns
\* (a separator, or nothing) is never a digit the run could give back.
RECURSIVE DigitRun(_)
DigitRun(s) == IF s # <<>> /\ Head(s) \in Digits THEN 1 + DigitRun(Tail(s)) ELSE 0

\* ^([a-z0-9]{40}) at the start of the line
ShaGroup(lin) ==
    /\ Len(lin) >= ShaLen
    /\ \A i \in 1..ShaLen : lin[i] \in Lower \cup Digits

\* [-_.]
TagSeparators == {"-", "_", "."}

\* reltagre.search(lin), reltagre =
\*   ^([a-z0-9]{40}) refs\/tags\/GNET-([0-9]+)[-_.]([0-9]+)[-_.]([0-9]+)
reltagre_search(lin) ==
    IF ~(ShaGroup(lin) /\ startswith(After(lin, ShaLen), GnetPrefix)) THEN NoMatch
    ELSE
    LET r1 == After(lin, ShaLen + Len(GnetPrefix))
        n1 == DigitRun(r1)
    IN  IF ~(n1 > 0 /\ Len(r1) > n1 /\ r1[n1 + 1] \in TagSeparators) THEN NoMatch
        ELSE
        LET r2 == After(r1, n1 + 1)
            n2 == DigitRun(r2)
        IN  IF ~(n2 > 0 /\ Len(r2) > n2 /\ r2[n2 + 1] \in TagSeparators) THEN NoMatch
            ELSE
            LET r3 == After(r2, n2 + 1)
                n3 == DigitRun(r3)
            IN  IF n3 = 0 THEN NoMatch
                ELSE [match |-> TRUE,
                      groups |-> <<SubSeq(lin, 1, ShaLen), SubSeq(r1, 1, n1),
                                   SubSeq(r2, 1, n2), SubSeq(r3, 1, n3)>>]

\* starttagre.search(lin), starttagre = ^([a-z0-9]{40}) refs\/tags\/CHANGELOG_START
starttagre_search(lin) ==
    IF ShaGroup(lin) /\ startswith(After(lin, ShaLen), ChangelogStart)
    THEN [match |-> TRUE, groups |-> <<SubSeq(lin, 1, ShaLen)>>]
    ELSE NoMatch

\* A variant that keeps the value a key already has (dict.setdefault).
DictSetDefault(d, k, v) == [x \in DOMAIN d \cup {k} |-> IF x \in DOMAIN d THEN d[x] ELSE v]

\* d[k] = v on a dict
DictSet(d, k, v) == [x \in DOMAIN d \cup {k} |-> IF x = k THEN v ELSE d[x]]

\* The loop of get_rel_tags over the lines of git show-ref --tags --dereference,
\* from the dict refs.
RECURSIVE get_rel_tags(_, _)
get_rel_tags(refs, lines) ==
    IF lines = <<>> THEN refs
    ELSE LET m == reltagre_search(Head(lines))
         IN  get_rel_tags(IF m.match
                          THEN DictSet(refs, m.groups[1],
                                       <<m.groups[2], m.groups[3], m.groups[4]>>)
                          ELSE refs,
                          Tail(lines))

\* The loop of find_start_tag over the lines of git show-ref --tags.
RECURSIVE find_start_tag(_)
find_start_tag(lines) ==
    IF lines = <<>> THEN None
    ELSE LET m == starttagre_search(Head(lines))
         IN  IF m.match THEN m.groups[1] ELSE find_start_tag(Tail(lines))

GitLogCmd ==
    << <<"g","i","t">>, <<"l","o","g">>,
       <<"-","-","p","r","e","t","t","y","=","f","o","r","m","a","t",":","-","-","S","T","A","R","T","-","C","O","M","M","I","T","-","-","%","H","%","n","%","a","i"," "," ","%","a","n"," ","<","%","a","e",">","%","n","%","n","%","s","%","n","%","b","%","n","-","-","E","N","D","-","C","O","M","M","I","T","-","-">>,
       <<"-","-","d","a","t","e","=","s","h","o","r","t">>,
       <<"-","-","n","a","m","e","-","o","n","l","y">> >>

DotDotHead == <<".",".","H","E","A","D">>

\* A variant that appends the revision range to the caller's arguments.
git_log_args_keep(tag, args) == IF tag = None THEN args ELSE args \o <<tag \o DotDotHead>>

\* What output_commits appends to cmd.
git_log_args(tag, args) == IF tag = None THEN args ELSE <<tag \o DotDotHead>>

Argvs ==
    { <<>>, << <<"-","5">> >>,
      << <<"v","1",".","0",".",".","H","E","A","D">>, <<"-","-","n","o","-","m","e","r","g","e","s">> >> }

-----------------------------------------------------------------------------
(* The program up to the start of git log *)

InitTags ==
    /\ pc = "get_rel_tags"
    /\ tags \in TagSets(1..Len(TagCandidates), MaxTags)
    /\ objfmt \in {"sha1", "sha256"}
    /\ pos = 0
    /\ release_refs = <<>>
    /\ start_tag = None
    /\ argv \in Argvs
    /\ cmd = <<>>
    /\ commits = <<>>
    /\ buf = <<>>
    /\ files = <<>>
    /\ filemode = FALSE
    /\ out = <<>>
    /\ calls = <<>>
    /\ out2 = <<>>

\* get_rel_tags()
GetRelTags ==
    /\ pc = "get_rel_tags"
    /\ release_refs' = get_rel_tags(release_refs, ShowRef(tags, objfmt, TRUE))
    /\ pc' = "find_start_tag"
    /\ UNCHANGED <<tags, objfmt, pos, start_tag, argv, cmd, commits, buf, files,
                   filemode, out, calls, out2>>

\* start_tag = find_start_tag()
FindStartTag ==
    /\ pc = "find_start_tag"
    /\ start_tag' = find_start_tag(ShowRef(tags, objfmt, FALSE))
    /\ pc' = "popen"
    /\ UNCHANGED <<tags, objfmt, pos, release_refs, argv, cmd, commits, buf, files,
                   filemode, out, calls, out2>>

\* cmd.extend(...) and Popen(args=cmd)
Popen ==
    /\ pc = "popen"
    /\ cmd' = GitLogCmd \o git_log_args(start_tag, argv)
    /\ pc' = "readlines"
    /\ UNCHANGED <<tags, objfmt, pos, release_refs, start_tag, argv, commits, buf,
                   files, filemode, out, calls, out2>>

NextTags == GetRelTags \/ FindStartTag \/ Popen

SpecTags == InitTags /\ [][NextTags]_vars

-----------------------------------------------------------------------------
(* Properties of the tag resolver and of the git log command, under SpecTags *)

\* C5: the arguments after the fixed git log command are exactly the
\* caller's arguments, in order, when find_start_tag returned none, and
\* exactly the one argument <start-tag>..HEAD when it returned a start tag.
C5_LogArguments ==
    pc = "readlines" =>
        /\ Len(cmd) >= Len(GitLogCmd)
        /\ SubSeq(cmd, 1, Len(GitLogCmd)) = GitLogCmd
        /\ start_tag = None => After(cmd, Len(GitLogCmd)) = argv
        /\ start_tag # None =>
              After(cmd, Len(GitLogCmd)) = <<start_tag \o <<".", ".", "H", "E", "A", "D">> >>

\* A start tag was found and the caller's two arguments were replaced by the
\* one revision range.
C5_Witness ==
    /\ pc = "readlines"
    /\ start_tag # None
    /\ start_tag = ObjectName("a", "sha1")
    /\ Len(argv) = 2
    /\ Len(cmd) = Len(GitLogCmd) + 1
    /\ cmd[Len(cmd)] = ObjectName("a", "sha1") \o <<".", ".", "H", "E", "A", "D">>

\* A 40-character object name followed by the rest of a tag-reference line.
HasHash(lin) == Len(lin) > 40 /\ \A i \in 1..40 : lin[i] # " "

\* The line is "<40-char hash> refs/tags/CHANGELOG_START" and nothing more.
NamesStartTagExactly(lin) ==
    /\ HasHash(lin)
    /\ After(lin, 40) = <<" ","r","e","f","s","/","t","a","g","s","/">>
                          \o <<"C","H","A","N","G","E","L","O","G","_","S","T","A","R","T">>

\* C6 as stated: find_start_tag returns the commit identifier of the tag
\* named exactly CHANGELOG_START, and none when no tag has exactly that name.
C6_AsStated ==
    pc \in {"popen", "readlines"} =>
        LET lines == ShowRef(tags, objfmt, FALSE)
            exact == {i \in 1..Len(lines) : NamesStartTagExactly(lines[i])}
        IN  IF exact = {} THEN start_tag = None
            ELSE start_tag = SubSeq(lines[Min(exact)], 1, 40)

\* C6 holds of the repositories in which no tag's name is CHANGELOG_START
\* followed by more characters.
C6_WhenNoLongerName ==
    (\A i \in 1..Len(tags) :
        startswith(tags[i].name, <<"C","H","A","N","G","E","L","O","G","_","S","T","A","R","T">>)
            => Len(tags[i].name) = 15)
        => C6_AsStated

\* The ways to read a line as a release tag,
\*   "<40-char hash> refs/tags/GNET-MAJOR<sep>MINOR<sep>PATCH",
\* each a hash and a version triple: the separators stand at a and b and
\* PATCH ends at c.  Read exactly, the line ends with PATCH; otherwise PATCH
\* is the whole run of digits and any text may follow it.
Readings(lin, exactly) ==
    LET n == Len(lin)
        IsDigits(i, j) == i <= j /\ \A k \in i..j : lin[k] \in Digits
        IsSep(i) == lin[i] \in {"-", "_", "."}
        first == 57
    IN  IF ~(HasHash(lin) /\ n >= first
             /\ SubSeq(lin, 41, 56)
                  = <<" ","r","e","f","s","/","t","a","g","s","/","G","N","E","T","-">>)
        THEN {}
        ELSE UNION { UNION { { [sha |-> SubSeq(lin, 1, 40),
                                rel |-> <<SubSeq(lin, first, a - 1), SubSeq(lin, a + 1, b - 1),
                                          SubSeq(lin, b + 1, c)>>] :
                               c \in {z \in (b + 1)..n :
                                         /\ IsDigits(b + 1, z)
                                         /\ IF exactly THEN z = n
                                            ELSE z < n => lin[z + 1] \notin Digits} } :
                             b \in {y \in (a + 1)..n : IsSep(y) /\ IsDigits(a + 1, y - 1)} } :
                     a \in {x \in first..n : IsSep(x) /\ IsDigits(first, x - 1)} }

\* After get_rel_tags: every line that reads as a release tag has its triple
\* under its hash, unless a later line that reads as one has the same hash;
\* and every key of the mapping is the hash of a line that reads as one.
MappingHolds(exactly) ==
    LET lines == ShowRef(tags, objfmt, TRUE)
    IN  /\ \A i \in 1..Len(lines) : \A r \in Readings(lines[i], exactly) :
              (\A j \in (i + 1)..Len(lines) : \A q \in Readings(lines[j], exactly) :
                    q.sha # r.sha)
                 => /\ r.sha \in DOMAIN release_refs
                    /\ release_refs[r.sha] = r.rel
        /\ \A k \in DOMAIN release_refs :
              \E i \in 1..Len(lines) : \E r \in Readings(lines[i], exactly) : r.sha = k

\* C7 as stated: the lines that count are the lines of the form
\* "<40-char hash> refs/tags/GNET-MAJOR<sep>MINOR<sep>PATCH"; any other line
\* adds no entry and changes no entry.
C7_AsStated == pc # "get_rel_tags" => MappingHolds(TRUE)

\* C7 amended: the lines that count are the lines that begin with
\* "<40-char hash> refs/tags/GNET-MAJOR<sep>MINOR<sep>PATCH", whatever follows
\* the digits of PATCH (the "^{}" of a dereferenced tag, "-rc1"); the mapping
\* holds the exact string triple of the last such line under each hash, and a
\* line that does not begin so adds no entry and changes no entry.
C7_ReleaseMapping == pc # "get_rel_tags" => MappingHolds(FALSE)

\* Three tags were read: a dereferenced GNET-1.2.3 and, last for the same
\* commit, GNET-2_0-01.
C7_Witness ==
    /\ pc = "find_start_tag"
    /\ objfmt = "sha1"
    /\ Len(tags) = 3
    /\ DOMAIN release_refs = {ObjectName("a", "sha1"), ObjectName("c", "sha1")}
    /\ release_refs[ObjectName("a", "sha1")] = << <<"2">>, <<"0">>, <<"0", "1">> >>
    /\ release_refs[ObjectName("c", "sha1")] = << <<"1">>, <<"2">>, <<"3">> >>

-----------------------------------------------------------------------------
(* output_commits: the loop over the lines of git log *)

SentinelLen == 16

DigitChars == <<"0","1","2","3","4","5","6","7","8","9">>

\* int(s) for a string of decimal digits
RECURSIVE py_int(_)
py_int(s) ==
    IF s = <<>> THEN 0
    ELSE py_int(SubSeq(s, 1, Len(s) - 1)) * 10
            + (CHOOSE d \in 0..9 : DigitChars[d + 1] = s[Len(s)])

\* "%d" % n for n >= 0
RECURSIVE percent_d(_)
percent_d(n) ==
    IF n < 10 THEN <<DigitChars[n + 1]>>
    ELSE percent_d(n \div 10) \o <<DigitChars[(n % 10) + 1]>>

\* print("=== release %d.%d.%d ===\n" % (int(rel[0]), int(rel[1]), int(rel[2]))):
\* the marker line and, for the "\n" of the string, a blank line.
release_marker(rel) ==
    << <<"=","=","="," ","r","e","l","e","a","s","e"," ">>
          \o percent_d(py_int(rel[1])) \o <<".">> \o percent_d(py_int(rel[2])) \o <<".">>
          \o percent_d(py_int(rel[3])) \o <<" ","=","=","=">>,
       Blank >>

\* The commits the loop is examined on.
LogCommits ==
    { Commit(h, [off |-> Utc, an |-> Alice, ae |-> Email], m, fs) :
        h \in {"a", "b"},
        m \in Messages({Fix, BulletLine}, {}, 0),
        fs \in SeqsUpTo({FileA}, 1) }

\* p.stdout.readlines()
Stream == GitLog(commits, objfmt)

\* The program has run get_rel_tags and find_start_tag and has started git log.
Init ==
    /\ pc = "readlines"
    /\ tags \in TagSets({4, 6}, 2)
    /\ objfmt = "sha1"
    /\ pos = 0
    /\ release_refs = get_rel_tags(<<>>, ShowRef(tags, objfmt, TRUE))
    /\ start_tag = find_start_tag(ShowRef(tags, objfmt, FALSE))
    /\ argv = <<>>
    /\ cmd = GitLogCmd \o git_log_args(start_tag, argv)
    /\ commits \in SeqsUpTo(LogCommits, MaxCommits)
    /\ buf = <<>>
    /\ files = <<>>
    /\ filemode = FALSE
    /\ out = <<>>
    /\ calls = <<>>
    /\ out2 = <<>>

\* if buf != []: process_commit(buf, files)
Flushed == IF buf # <<>> THEN process_commit(buf, files) ELSE [fault |-> FALSE, out |-> <<>>]

FlushCalls == IF buf # <<>> THEN Append(calls, [lines |-> buf, files |-> files]) ELSE calls

\* A line that starts with --START-COMMIT--.  An IndexError of process_commit
\* is caught nowhere: it ends the program.
ReadStartCommit ==
    /\ pc = "readlines"
    /\ pos < Len(Stream)
    /\ startswith(Stream[pos + 1], StartSentinel)
    /\ calls' = FlushCalls
    /\ IF Flushed.fault
       THEN /\ pc' = "IndexError"
            /\ UNCHANGED <<pos, buf, files, filemode, out>>
       ELSE LET hash == strip(After(Stream[pos + 1], SentinelLen))
            IN  /\ out' = out \o Flushed.out
                        \o (IF hash \in DOMAIN release_refs
                            THEN release_marker(release_refs[hash])
                            ELSE <<>>)
                /\ buf' = <<>>
                /\ files' = <<>>
                /\ filemode' = FALSE
                /\ pos' = pos + 1
                /\ pc' = pc
    /\ UNCHANGED <<tags, objfmt, release_refs, start_tag, argv, cmd, commits, out2>>

\* A line that starts with --END-COMMIT--.
ReadEndCommit ==
    /\ pc = "readlines"
    /\ pos < Len(Stream)
    /\ ~startswith(Stream[pos + 1], StartSentinel)
    /\ startswith(Stream[pos + 1], EndSentinel)
    /\ filemode' = TRUE
    /\ pos' = pos + 1
    /\ UNCHANGED <<pc, tags, objfmt, release_refs, start_tag, argv, cmd, commits,
                   buf, files, out, calls, out2>>

\* Any other line.
ReadLine ==
    /\ pc = "readlines"
    /\ pos < Len(Stream)
    /\ ~startswith(Stream[pos + 1], StartSentinel)
    /\ ~startswith(Stream[pos + 1], EndSentinel)
    /\ IF filemode
       THEN files' = Append(files, Stream[pos + 1]) /\ buf' = buf
       ELSE buf' = Append(buf, Stream[pos + 1]) /\ files' = files
    /\ pos' = pos + 1
    /\ UNCHANGED <<pc, tags, objfmt, release_refs, start_tag, argv, cmd, commits,
                   filemode, out, calls, out2>>

\* The lines are exhausted: the last block is flushed.
EndOfStream ==
    /\ pc = "readlines"
    /\ pos = Len(Stream)
    /\ calls' = FlushCalls
    /\ out' = out \o Flushed.out
    /\ pc' = IF Flushed.fault THEN "IndexError" ELSE "done"
    /\ UNCHANGED <<tags, objfmt, pos, release_refs, start_tag, argv, cmd, commits,
                   buf, files, filemode, out2>>

Next == ReadStartCommit \/ ReadEndCommit \/ ReadLine \/ EndOfStream

Spec == Init /\ [][Next]_vars

-----------------------------------------------------------------------------
(* Properties of output_commits, under Spec *)

Terminated == pc \in {"done", "IndexError"}

\* The commit blocks of the stream, read off the sentinel lines: for each
\* start sentinel, the text after it, the lines up to the next end sentinel,
\* and the lines from there to the next start sentinel or the end.
StartLines == {i \in 1..Len(Stream) : startswith(Stream[i], StartSentinel)}

EndLines == {i \in 1..Len(Stream) : startswith(Stream[i], EndSentinel)}

BlockAt(s) ==
    LET e == Min({i \in EndLines : i > s})
        t == Min({i \in StartLines : i > s} \cup {Len(Stream) + 1})
    IN  [hash |-> SubSeq(Stream[s], 17, Len(Stream[s])),
         lines |-> SubSeq(Stream, s + 1, e - 1),
         files |-> SubSeq(Stream, e + 1, t - 1)]

RECURSIVE BlocksFrom(_)
BlocksFrom(S) == IF S = {} THEN <<>> ELSE <<BlockAt(Min(S))>> \o BlocksFrom(S \ {Min(S)})

Blocks == BlocksFrom(StartLines)

\* A version component printed as an integer: the digits without leading
\* zeros.
RECURSIVE AsInteger(_)
AsInteger(d) == IF Len(d) > 1 /\ Head(d) = "0" THEN AsInteger(Tail(d)) ELSE d

\* What C4 has printed before the stanza of a block: the marker line and a
\* blank line when the block's hash is a key of the mapping, nothing otherwise.
MarkerOf(b) ==
    IF b.hash \in DOMAIN release_refs
    THEN << <<"=","=","="," ","r","e","l","e","a","s","e"," ">>
               \o AsInteger(release_refs[b.hash][1]) \o <<".">>
               \o AsInteger(release_refs[b.hash][2]) \o <<".">>
               \o AsInteger(release_refs[b.hash][3]) \o <<" ","=","=","=">>,
            Blank >>
    ELSE <<>>

RECURSIVE MarkedStanzas(_)
MarkedStanzas(bs) ==
    IF bs = <<>> THEN <<>>
    ELSE MarkerOf(Head(bs)) \o process_commit(Head(bs).lines, Head(bs).files).out
            \o MarkedStanzas(Tail(bs))

\* C4 as stated: when the program has ended, the output is, for every commit
\* of the stream in turn, the release marker and a blank line if the commit's
\* hash is a key of the mapping, then what process_commit prints for the
\* commit.
C4_AsStated == Terminated => out = MarkedStanzas(Blocks)

\* C4 holds of the runs in which process_commit raises no IndexError.
C4_WhenNoFault == pc = "done" => out = MarkedStanzas(Blocks)

\* C8 as stated: when the program has ended, process_commit has been called
\* once per commit block of the stream, in stream order, with the lines
\* between the block's sentinels and the lines after its end sentinel.
C8_AsStated ==
    Terminated =>
        calls = [k \in 1..Len(Blocks) |->
                    [lines |-> Blocks[k].lines, files |-> Blocks[k].files]]

\* C8 holds of the runs in which process_commit raises no IndexError; in
\* every run the calls made so far are the first blocks of the stream, and a
\* call is made only at a start sentinel or at the end of the stream.
C8_WhenNoFault == pc = "done" => C8_AsStated

C8_CallsArePrefix ==
    /\ Len(calls) <= Len(Blocks)
    /\ \A k \in 1..Len(calls) :
          calls[k] = [lines |-> Blocks[k].lines, files |-> Blocks[k].files]

C8_FlushOnlyAtBoundary ==
    [][calls' # calls =>
          \/ pos = Len(Stream)
          \/ startswith(Stream[pos + 1], StartSentinel)]_vars

\* C10 as stated: no block that output_commits flushes makes process_commit
\* raise an IndexError.
C10_AsStated == pc # "IndexError"

\* The IndexError comes from lines[1] alone, and only for a commit whose
\* message is empty: the header line of the template never faults.
C10_FaultOnlyOnEmptyMessage ==
    pc = "IndexError" =>
        /\ Len(filter_lines(calls[Len(calls)].lines)) = 1
        /\ ~clean_top_line(filter_lines(calls[Len(calls)].lines)[1]).fault
        /\ commits[Len(calls)].subject = Blank

=============================================================================
